---- MODULE Spec2Model ----
(***************************************************************************)
(* Model of ChatGptViewProvider (src/src/chatgpt-view-provider-zh.ts): the *)
(* request/response lifecycle of the side panel, with cancellation,        *)
(* continuation, client selection and the one-slot buffer of undelivered   *)
(* webview messages.                                                       *)
(*                                                                         *)
(* Texts are sequences of one-character strings.  Identifiers are natural  *)
(* numbers, 0 standing for undefined / the empty string.  A call of        *)
(* sendApiRequest that awaits its client has an entry in reqs (its locals  *)
(* and history); the step in which a call returns leaves that entry in     *)
(* returned.  sent holds the sendMessage calls of the latest step, in      *)
(* order, with what became of each message.  A property of every message   *)
(* ever sent, or of every call that returned, is thus an invariant over    *)
(* sent or returned.                                                       *)
(***************************************************************************)
EXTENDS Naturals, Integers, Sequences, FiniteSets, TLC

VARIABLES
    webView,            \* TRUE when this.webView is set
    model,              \* this.model, a text, or Undefined
    storedApiKey,       \* globalState holds "chatgpt-gpt3-apiKey"
    apiGpt3,            \* this.apiGpt3 is set
    apiGpt35,           \* this.apiGpt35 is set
    conversationId,     \* this.conversationId, 0 = undefined
    messageId,          \* this.messageId, 0 = undefined
    inProgress,         \* this.inProgress
    abortController,    \* request whose AbortController is held, 0 = undefined
    currentMessageId,   \* this.currentMessageId, 0 = ""
    response,           \* this.response
    leftOverMessage,    \* this.leftOverMessage, NoMessage = null/undefined
    nreq,               \* number of sendApiRequest calls so far
    reqs,               \* the calls of sendApiRequest that await their client
    returned,           \* history: the call that returned in the latest step
    handed,             \* history: the call the latest step handed to a client
    offers,             \* requests whose "continue and combine" offer is open
    offerText,          \* history: the text published with each open offer
    retryOffers,        \* requests whose "clear and retry" offer is open (to
                        \* accept it is clearConversation, then the question
                        \* asked again)
    keyPrompt,          \* the missing-key dialog has been shown and is open
    lastDetached,       \* history: the latest message sent, and the latest sent
                        \* without the ignore flag, while no webview was set
    lastCompleted,      \* history: the identifiers the latest completed client
                        \* call returned, unset by a clear
    clearedConversation, \* history: clearConversation was handled and no request
                        \* has been handed to a client since
    sent,               \* history: the sendMessage calls of the latest step
    op                  \* history: the operation of the latest step

vars == <<webView, model, storedApiKey, apiGpt3, apiGpt35, conversationId, messageId,
          inProgress, abortController, currentMessageId, response,
          leftOverMessage, nreq, reqs, returned, handed, offers, offerText, retryOffers, keyPrompt,
          lastDetached, lastCompleted, clearedConversation, sent, op>>

\* ------------------------------------------------------------------ bounds
\* calls of sendApiRequest
MaxRequests == 2
\* further calls, made by accepting a continuation offer (ContinuationSpec)
MaxContinuations == 1

\* ------------------------------------------------------------------- texts
Undefined == <<"undefined">>
\* the backquote character (a string of this notation cannot hold it)
Backquote == "^"
Fence == <<Backquote, Backquote, Backquote>>
TextA == <<"a">>
TextFence == Fence
TextOpen == Fence \o <<"a">>
TextClosed == Fence \o <<"a">> \o Fence
\* texts a client call may complete with
Texts == {TextA, TextOpen, TextClosed}
\* the partial text a progress callback carries
PartialTexts == {TextFence}

GptPrefix == <<"g", "p", "t", "-">>
CodePrefix == <<"c", "o", "d", "e", "-">>
ModelGpt4 == GptPrefix \o <<"4">>
ModelCodeDavinci ==
    CodePrefix \o <<"d", "a", "v", "i", "n", "c", "i", "-", "0", "0", "2">>
ModelTextDavinci ==
    <<"t", "e", "x", "t", "-", "d", "a", "v", "i", "n", "c", "i", "-", "0", "0", "3">>
ModelNames == {ModelGpt4, ModelCodeDavinci, ModelTextDavinci, Undefined}

startsWith(s, p) == Len(s) >= Len(p) /\ SubSeq(s, 1, Len(p)) = p

isCodexModel == model # Undefined /\ startsWith(model, CodePrefix)

isGpt35Model == model # Undefined /\ startsWith(model, GptPrefix)

useGpt3 == TRUE

\* number of pieces of s.split(Fence), matching left to right from position i
RECURSIVE splitLength(_, _)
splitLength(s, i) ==
    IF i + 2 > Len(s) THEN 1
    ELSE IF SubSeq(s, i, i + 2) = Fence THEN 1 + splitLength(s, i + 3)
    ELSE splitLength(s, i + 1)

hasContinuation(text) == (splitLength(text, 1) % 2) = 1

ClosingFence == <<" ", "\r", "\n", " ">> \o Fence \o <<"\r", "\n">>

\* ---------------------------------------------------------------- messages
NoMessage == [type |-> "none", value |-> <<>>, done |-> FALSE, id |-> 0,
              responseInMarkdown |-> FALSE, inProgress |-> FALSE]

ShowInProgress(flag) ==
    [type |-> "showInProgress", value |-> <<>>, done |-> FALSE, id |-> 0,
     responseInMarkdown |-> FALSE, inProgress |-> flag]

AddQuestion(prompt) ==
    [type |-> "addQuestion", value |-> prompt, done |-> FALSE, id |-> 0,
     responseInMarkdown |-> FALSE, inProgress |-> FALSE]

AddResponse(value, done, id, rim) ==
    [type |-> "addResponse", value |-> value, done |-> done, id |-> id,
     responseInMarkdown |-> rim, inProgress |-> FALSE]

AddError(value) ==
    [type |-> "addError", value |-> value, done |-> FALSE, id |-> 0,
     responseInMarkdown |-> FALSE, inProgress |-> FALSE]

LoginSuccessful ==
    [type |-> "loginSuccessful", value |-> <<>>, done |-> FALSE, id |-> 0,
     responseInMarkdown |-> FALSE, inProgress |-> FALSE]

\* What a run of sendMessage calls threads through: the calls so far, the
\* buffer, and the latest messages sent with no webview.
Out(l, left, det) == [sent |-> l, left |-> left, detached |-> det]

Entry(m, req, disp) == [msg |-> m, req |-> req, disp |-> disp]

Detached(any, kept) == [any |-> any, kept |-> kept]

\* sendMessage that keeps the first undelivered message instead of the latest
sendMessageKeepsFirst(o, m, ignore, req) ==
    IF webView THEN Out(Append(o.sent, Entry(m, req, "posted")), o.left, o.detached)
    ELSE IF ~ignore
    THEN Out(Append(o.sent, Entry(m, req, "buffered")),
             IF o.left = NoMessage THEN m ELSE o.left, Detached(m, m))
    ELSE Out(Append(o.sent, Entry(m, req, "dropped")), o.left,
             Detached(m, o.detached.kept))

\* sendMessage(message, ignoreMessageIfNullWebView), issued on behalf of req
sendMessage(o, m, ignore, req) ==
    IF webView THEN Out(Append(o.sent, Entry(m, req, "posted")), o.left, o.detached)
    ELSE IF ~ignore
    THEN Out(Append(o.sent, Entry(m, req, "buffered")), m, Detached(m, m))
    ELSE Out(Append(o.sent, Entry(m, req, "dropped")), o.left,
             Detached(m, o.detached.kept))

\* history: lastDetached is kept until the step after the webview is set
KeptDetached == IF webView THEN Detached(NoMessage, NoMessage) ELSE lastDetached

\* the state of the buffer before a step sends anything
Start == Out(<<>>, leftOverMessage, KeptDetached)

Deliver(o) ==
    /\ sent' = o.sent
    /\ leftOverMessage' = o.left
    /\ lastDetached' = o.detached

Silent ==
    /\ sent' = <<>>
    /\ lastDetached' = KeptDetached
    /\ UNCHANGED leftOverMessage

\* ---------------------------------------------------------------- requests
PromptQuestion == <<"q">>
PromptContinue == <<"Continue">>

Requests == 1..(MaxRequests + MaxContinuations)

\* history: the client call did not reject
NoError == [defined |-> FALSE, status |-> "none", statusText |-> "",
            statusCode |-> "", apiMessage |-> ""]

\* One call of sendApiRequest: its number, its position (pc: "await" at the
\* client call, "done", "dropped" by the guard, "noClient"), its arguments and
\* locals (aborted: its abort signal has fired), and history: terminals and
\* errors count the terminal messages (addResponse with done, addError) and
\* the addError messages published for the request, cancelled records a stop
\* while it was in flight, cleared a clearSession while its client call was
\* outstanding, text is what the client call resolved with, final the text
\* then published, error what the client call rejected with.
Req(r, pc, prompt, hasPrev, prev, rim, client) ==
    [r |-> r, pc |-> pc, prompt |-> prompt, hasPrev |-> hasPrev,
     previousAnswer |-> prev, responseInMarkdown |-> rim, client |-> client,
     aborted |-> FALSE, outcome |-> "none", terminals |-> 0, errors |-> 0,
     cancelled |-> FALSE, cleared |-> FALSE, text |-> <<>>, final |-> <<>>,
     error |-> NoError]

NoReq == Req(0, "none", <<>>, FALSE, <<>>, FALSE, "none")

\* history: a call as it is handed to a client: messageId and parentMessageId
\* are the options of those names passed to the client, afterClear records
\* that it is the first call handed to a client after a clearConversation,
\* keyResolvable that the configuration or the stored state held a key,
\* offered is the text published with the offer the call was made for
Handed(r, ids, afterClear, keyResolvable, offered) ==
    [r |-> r, messageId |-> ids.messageId, parentMessageId |-> ids.parentMessageId,
     afterClear |-> afterClear, keyResolvable |-> keyResolvable,
     offered |-> offered]

NoHanded == Handed(0, [messageId |-> 0, parentMessageId |-> 0], FALSE, FALSE, <<>>)

\* the message counters count 0, 1, and 2 for two or more
Inc(n) == IF n = 0 THEN 1 ELSE 2

\* A client call is outstanding from the moment it is made until it resolves
\* or rejects; the abort signal is a request to the client, and neither stops
\* its progress callbacks nor decides how or when the call settles.
Outstanding(r) == r \in Requests /\ reqs[r].pc = "await"

\* ------------------------------------------------------- control operations
\* stopGenerating: this.abortController?.abort?.() fires the signal the held
\* controller's client call was given (a call that has returned has no use
\* for its signal any more)
stopGeneratingAbort(rs) ==
    IF Outstanding(abortController)
    THEN [rs EXCEPT ![abortController].aborted = TRUE]
    ELSE rs

\* a stopGenerating that sets the flag
stopGeneratingInProgressSet == TRUE

\* stopGenerating: this.inProgress = false
stopGeneratingInProgress == FALSE

\* stopGenerating: the two messages it sends
stopGeneratingOut(o) ==
    sendMessage(
        sendMessage(o, ShowInProgress(stopGeneratingInProgress), FALSE, currentMessageId),
        AddResponse(response, TRUE, currentMessageId, ~isCodexModel), FALSE,
        currentMessageId)

\* stopGenerating on the outstanding calls: the abort, and as history the
\* terminal message it publishes, which carries the id of the latest accepted
\* request
stopGeneratingReqs ==
    IF Outstanding(currentMessageId)
    THEN [stopGeneratingAbort(reqs) EXCEPT
              ![currentMessageId].terminals = Inc(@),
              ![currentMessageId].cancelled = @ \/ inProgress]
    ELSE stopGeneratingAbort(reqs)

\* history: the calls outstanding at a clearSession
clearSessionReqs ==
    [r \in Requests |->
        IF Outstanding(r) THEN [stopGeneratingReqs[r] EXCEPT !.cleared = TRUE]
        ELSE stopGeneratingReqs[r]]

\* clearSession: what becomes of the two client instances
clearSessionGpt3 == FALSE

clearSessionGpt35 == apiGpt35

\* clearSession: what becomes of the continuation identifiers
clearSessionIds == [conversationId |-> 0, messageId |-> 0]

\* history: no completed call's identifiers are current
NoIds == [set |-> FALSE, conversationId |-> 0, messageId |-> 0]

\* The constructor calls setMethod, setChromeExecutablePath, setProfilePath and
\* setAuthType, each of which calls clearSession, before any webview exists.
ConstructorClears == 4

RECURSIVE Constructed(_)
Constructed(n) ==
    IF n = 0 THEN Out(<<>>, NoMessage, Detached(NoMessage, NoMessage))
    ELSE stopGeneratingOut(Out(<<>>, Constructed(n - 1).left, Constructed(n - 1).detached))

Init ==
    /\ webView = FALSE
    /\ model \in ModelNames
    /\ storedApiKey \in BOOLEAN
    /\ apiGpt3 = FALSE
    /\ apiGpt35 = FALSE
    /\ conversationId = 0
    /\ messageId = 0
    /\ inProgress = FALSE
    /\ abortController = 0
    /\ currentMessageId = 0
    /\ response = <<>>
    /\ nreq = 0
    /\ reqs = [r \in Requests |-> NoReq]
    /\ returned = NoReq
    /\ handed = NoHanded
    /\ offers = {}
    /\ offerText = [r \in Requests |-> <<>>]
    /\ retryOffers = {}
    /\ keyPrompt = FALSE
    /\ lastCompleted = NoIds
    /\ clearedConversation = FALSE
    /\ sent = Constructed(ConstructorClears).sent
    /\ leftOverMessage = Constructed(ConstructorClears).left
    /\ lastDetached = Constructed(ConstructorClears).detached
    /\ op = "constructor"

\* resolveWebviewView: the view is attached and the buffered message flushed
resolveWebviewView ==
    /\ ~webView
    /\ webView' = TRUE
    /\ sent' = IF leftOverMessage # NoMessage
               THEN <<Entry(leftOverMessage, 0, "flushed")>>
               ELSE <<>>
    /\ leftOverMessage' = NoMessage
    /\ op' = "resolveWebviewView"
    /\ handed' = NoHanded
    /\ UNCHANGED <<model, storedApiKey, apiGpt3, apiGpt35, conversationId, messageId,
                   inProgress, abortController, currentMessageId,
                   response, nreq, reqs, offers, offerText, retryOffers, keyPrompt,
                   lastDetached, lastCompleted, clearedConversation>>
    /\ returned' = NoReq

\* the webview's stopGenerating message
StopGenerating ==
    /\ webView
    /\ op' = "stopGenerating"
    /\ handed' = NoHanded
    /\ inProgress' = stopGeneratingInProgress
    /\ Deliver(stopGeneratingOut(Start))
    /\ reqs' = stopGeneratingReqs
    /\ returned' = NoReq
    /\ UNCHANGED <<webView, model, storedApiKey, apiGpt3, apiGpt35, conversationId,
                   messageId, abortController, currentMessageId, response,
                   nreq, offers, offerText, retryOffers, keyPrompt, lastCompleted,
                   clearedConversation>>

\* clearSession, as called by caller
clearSessionBy(caller) ==
    /\ op' = caller
    /\ handed' = NoHanded
    /\ inProgress' = stopGeneratingInProgress
    /\ Deliver(stopGeneratingOut(Start))
    /\ reqs' = clearSessionReqs
    /\ apiGpt3' = clearSessionGpt3
    /\ apiGpt35' = clearSessionGpt35
    /\ messageId' = clearSessionIds.messageId
    /\ conversationId' = clearSessionIds.conversationId
    /\ returned' = NoReq
    /\ lastCompleted' = NoIds
    /\ UNCHANGED <<webView, model, storedApiKey, abortController, currentMessageId,
                   response, nreq, offers, offerText, retryOffers, keyPrompt,
                   clearedConversation>>

\* clearSession, called by the host
clearSession == clearSessionBy("clearSession")

\* the settings changes: each reads its setting; all but setProxyServer then
\* call clearSession
setMethod == clearSessionBy("setMethod")

setAuthType == clearSessionBy("setAuthType")

setChromeExecutablePath == clearSessionBy("setChromeExecutablePath")

setProfilePath == clearSessionBy("setProfilePath")

setProxyServer ==
    /\ op' = "setProxyServer"
    /\ handed' = NoHanded
    /\ returned' = NoReq
    /\ Silent
    /\ UNCHANGED <<webView, model, storedApiKey, apiGpt3, apiGpt35, conversationId,
                   messageId, inProgress, abortController, currentMessageId,
                   response, nreq, reqs, offers, offerText, retryOffers, keyPrompt,
                   lastCompleted, clearedConversation>>

\* ------------------------------------------------------------ client set-up
\* prepareConversation(): whether it succeeds and the client instances it
\* leaves; configKey is whether the configuration holds gpt3.apiKey at the call
prepareConversation(configKey) ==
    IF useGpt3 /\ ((isGpt35Model /\ ~apiGpt35) \/ (~isGpt35Model /\ ~apiGpt3))
    THEN IF ~(configKey \/ storedApiKey)
         THEN [ok |-> FALSE, apiGpt3 |-> apiGpt3, apiGpt35 |-> apiGpt35]
         ELSE IF isGpt35Model
              THEN [ok |-> TRUE, apiGpt3 |-> apiGpt3, apiGpt35 |-> TRUE]
              ELSE [ok |-> TRUE, apiGpt3 |-> TRUE, apiGpt35 |-> apiGpt35]
    ELSE [ok |-> TRUE, apiGpt3 |-> apiGpt3, apiGpt35 |-> apiGpt35]

\* the client a request is sent through, given the instances that exist
routeClient(gpt3, gpt35) ==
    IF ~useGpt3 THEN "none"
    ELSE IF isGpt35Model /\ gpt35 THEN "gpt35"
    ELSE IF ~isGpt35Model /\ gpt3 THEN "gpt3"
    ELSE "none"

\* responseInMarkdown with the negation lost
responseInMarkdownNotNegated == isCodexModel

\* const responseInMarkdown = !this.isCodexModel
responseInMarkdown == ~isCodexModel

\* getRandomId(): a fresh identifier, here the number of the call
getRandomId(r) == r

\* the continuation options passed to either client
passedIds == [messageId |-> conversationId, parentMessageId |-> messageId]

\* a guard that lets every call through
rejectsRequestNever == FALSE

\* if (this.inProgress) return
rejectsRequest == inProgress

\* sendApiRequest(prompt, {previousAnswer}) up to the client call
sendApiRequest(prompt, hasPrev, prev, configKey, offered) ==
    LET r == nreq + 1
        prep == prepareConversation(configKey)
    IN
    /\ r \in Requests
    /\ nreq' = r
    /\ op' = "sendApiRequest"
    /\ IF rejectsRequest
       THEN /\ returned' = Req(r, "dropped", prompt, hasPrev, prev, FALSE, "none")
            /\ Silent
            /\ handed' = NoHanded
            /\ UNCHANGED <<apiGpt3, apiGpt35, inProgress, abortController,
                           currentMessageId, response, keyPrompt, reqs,
                           clearedConversation>>
       ELSE IF ~prep.ok
       THEN /\ returned' = Req(r, "noClient", prompt, hasPrev, prev, FALSE, "none")
            /\ keyPrompt' = TRUE
            /\ Silent
            /\ handed' = NoHanded
            /\ UNCHANGED <<apiGpt3, apiGpt35, inProgress, abortController,
                           currentMessageId, response, reqs, clearedConversation>>
       ELSE /\ apiGpt3' = prep.apiGpt3
            /\ apiGpt35' = prep.apiGpt35
            /\ response' = <<>>
            /\ inProgress' = TRUE
            /\ abortController' = r
            /\ currentMessageId' = getRandomId(r)
            /\ reqs' = [reqs EXCEPT ![r] =
                           Req(r, "await", prompt, hasPrev, prev, responseInMarkdown,
                               routeClient(prep.apiGpt3, prep.apiGpt35))]
            /\ handed' = Handed(r, passedIds, clearedConversation,
                                configKey \/ storedApiKey, offered)
            /\ clearedConversation' = FALSE
            /\ returned' = NoReq
            /\ Deliver(sendMessage(
                         sendMessage(
                           sendMessage(Start, LoginSuccessful, TRUE, r),
                           ShowInProgress(TRUE), FALSE, r),
                         AddQuestion(prompt), FALSE, r))
            /\ UNCHANGED keyPrompt
    /\ UNCHANGED <<webView, model, storedApiKey, conversationId, messageId,
                   retryOffers, lastCompleted>>

\* the webview's addFreeTextQuestion message, or an editor command
AddFreeTextQuestion ==
    /\ nreq < MaxRequests
    /\ \E configKey \in BOOLEAN :
           sendApiRequest(PromptQuestion, FALSE, <<>>, configKey, <<>>)
    /\ UNCHANGED <<offers, offerText>>

\* previousAnswer: this.response, read when the offer is accepted
previousAnswer(r) == response

\* the user accepts the offer to continue and combine the answer of request r
continueAndCombine(r) ==
    /\ r \in offers
    /\ offers' = offers \ {r}
    /\ offerText' = [offerText EXCEPT ![r] = <<>>]
    /\ \E configKey \in BOOLEAN :
           sendApiRequest(PromptContinue, TRUE, previousAnswer(r), configKey,
                          offerText[r])

AcceptContinuation(r) == nreq < MaxRequests /\ continueAndCombine(r)

\* an offer accepted after MaxRequests calls
FurtherContinuation(r) == nreq >= MaxRequests /\ continueAndCombine(r)

\* --------------------------------------------------------------- the client
\* what a completed client call returns: text and continuation identifiers
Result(r, text) == [text |-> text, id |-> 2 * r - 1, parentMessageId |-> 2 * r]

\* onProgress of request r
onProgress(r, text) ==
    /\ Outstanding(r)
    /\ reqs[r].client # "none"
    /\ op' = "onProgress"
    /\ handed' = NoHanded
    /\ response' = text
    /\ Deliver(sendMessage(Start,
                 AddResponse(text, FALSE,
                             IF reqs[r].client = "gpt35" THEN conversationId ELSE messageId,
                             reqs[r].responseInMarkdown),
                 FALSE, r))
    /\ returned' = NoReq
    /\ UNCHANGED <<webView, model, storedApiKey, apiGpt3, apiGpt35, conversationId,
                   messageId, inProgress, abortController,
                   currentMessageId, nreq, reqs, offers, offerText, retryOffers,
                   keyPrompt, lastCompleted, clearedConversation>>

\* previousAnswer + response
joinPrevious(hasPrev, prev, text) == IF hasPrev THEN prev \o text ELSE text

\* the text published as the final answer
finalText(joined) == IF hasContinuation(joined) THEN joined \o ClosingFence ELSE joined

\* a finally block that leaves this.inProgress as it is
finallyInProgressKept == inProgress

\* finally { this.inProgress = false }
finallyInProgress == FALSE

\* history: the entry of request r as it returns
Returned(r, outcome, published, isError, text, final) ==
    [reqs[r] EXCEPT !.pc = "done", !.outcome = outcome,
                    !.terminals = IF published THEN Inc(@) ELSE @,
                    !.errors = IF isError THEN Inc(@) ELSE @,
                    !.text = text, !.final = final]

\* the client call of request r resolves with res: the rest of the try block
\* and the finally block
Completed(r, res) ==
    LET joined == joinPrevious(reqs[r].hasPrev, reqs[r].previousAnswer, res.text)
    IN
    /\ op' = "resolve"
    /\ handed' = NoHanded
    /\ response' = finalText(joined)
    /\ offers' = IF hasContinuation(joined) THEN offers \cup {r} ELSE offers
    /\ offerText' = IF hasContinuation(joined)
                    THEN [offerText EXCEPT ![r] = finalText(joined)]
                    ELSE offerText
    /\ inProgress' = finallyInProgress
    /\ Deliver(sendMessage(
                 sendMessage(Start,
                             AddResponse(finalText(joined), TRUE, currentMessageId,
                                         reqs[r].responseInMarkdown), FALSE, r),
                 ShowInProgress(finallyInProgress), FALSE, r))
    /\ returned' = Returned(r, "completed", TRUE, FALSE, res.text, finalText(joined))
    /\ reqs' = [reqs EXCEPT ![r] = NoReq]
    /\ UNCHANGED <<webView, model, storedApiKey, apiGpt3, apiGpt35, abortController,
                   currentMessageId, nreq, retryOffers, keyPrompt,
                   clearedConversation>>

\* a destructuring that leaves the stored identifiers as they are
storedIdsKept(res) == [conversationId |-> conversationId, messageId |-> messageId]

\* the identifiers stored from what the client call resolved with
storedIds(res) == [conversationId |-> res.id, messageId |-> res.parentMessageId]

ClientResolve(r, text) ==
    /\ Outstanding(r)
    /\ reqs[r].client # "none"
    /\ conversationId' = storedIds(Result(r, text)).conversationId
    /\ messageId' = storedIds(Result(r, text)).messageId
    /\ lastCompleted' = [set |-> TRUE, conversationId |-> Result(r, text).id,
                         messageId |-> Result(r, text).parentMessageId]
    /\ Completed(r, Result(r, text))

\* ------------------------------------------------------------------ errors
\* What a client call may reject with: any value.  status/statusText are
\* error.response.status/statusText, statusCode is error.statusCode, apiMessage
\* is the first of response.data.error.message, tostring(), message, name that
\* is set; "" is an unset field.  defined = FALSE is a rejection with
\* undefined or null.
Err(defined, status, statusText, statusCode, apiMessage) ==
    [defined |-> defined, status |-> status, statusText |-> statusText,
     statusCode |-> statusCode, apiMessage |-> apiMessage]

ErrAbort == Err(TRUE, "", "", "", "This operation was aborted")
ErrHttp400 == Err(TRUE, "400", "Bad Request", "", "maximum context length")
ErrHttp500 == Err(TRUE, "500", "Internal Server Error", "", "server error")
ErrCode401 == Err(TRUE, "", "", "401", "Unauthorized")
ErrEmpty == Err(TRUE, "", "", "", "")
ErrUndefined == Err(FALSE, "", "", "", "")
Errors == {ErrAbort, ErrHttp400, ErrHttp500, ErrCode401, ErrEmpty, ErrUndefined}

StatusCodes == {"400", "401", "403", "404", "429", "500"}

\* the fixed message of the table for a status code
FixedMessage(code) == "HTTP " \o code

\* the catch block reads error.statusCode of an undefined or null error
catchThrows(err) == ~err.defined

\* the catch block offers "clear and retry"
catchOffersRetry(err) == err.status # "" \/ err.statusText # ""

\* message before the provider's message is appended
catchStatusMessage(err) ==
    IF err.status # "" \/ err.statusText # ""
    THEN <<err.status, " ", err.statusText>>
    ELSE IF err.statusCode \in StatusCodes
    THEN <<FixedMessage(err.statusCode)>>
    ELSE Undefined

\* the value of the addError message
catchMessage(err) ==
    LET message == catchStatusMessage(err)
    IN  IF err.apiMessage # ""
        THEN (IF message # Undefined THEN message \o <<" ">> ELSE <<>>)
             \o <<"\n", "\n", "\t", err.apiMessage, "\n">>
        ELSE message

\* an await that unsets the stored identifiers when it throws
rejectedIdsUnset == [conversationId |-> 0, messageId |-> 0]

\* the await throws before the destructuring assigns: the stored identifiers
\* after a rejection
rejectedIds == [conversationId |-> conversationId, messageId |-> messageId]

\* the client call of request r rejects with err: catch and finally
ClientReject(r, err) ==
    /\ Outstanding(r)
    /\ reqs[r].client # "none"
    /\ op' = "reject"
    /\ handed' = NoHanded
    /\ Deliver(sendMessage(
                 IF catchThrows(err) THEN Start
                 ELSE sendMessage(Start, AddError(catchMessage(err)), FALSE, r),
                 ShowInProgress(finallyInProgress), FALSE, r))
    /\ retryOffers' = IF ~catchThrows(err) /\ catchOffersRetry(err)
                      THEN retryOffers \cup {r} ELSE retryOffers
    /\ inProgress' = finallyInProgress
    /\ returned' = [Returned(r, IF catchThrows(err) THEN "threw" ELSE "failed",
                             ~catchThrows(err), ~catchThrows(err), <<>>, <<>>)
                    EXCEPT !.error = err]
    /\ reqs' = [reqs EXCEPT ![r] = NoReq]
    /\ conversationId' = rejectedIds.conversationId
    /\ messageId' = rejectedIds.messageId
    /\ UNCHANGED <<webView, model, storedApiKey, apiGpt3, apiGpt35,
                   abortController, currentMessageId,
                   response, nreq, offers, offerText, keyPrompt, lastCompleted,
                   clearedConversation>>

\* ------------------------------------------------- other webview messages
\* clearConversation
clearConversation ==
    /\ webView
    /\ op' = "clearConversation"
    /\ handed' = NoHanded
    /\ messageId' = 0
    /\ conversationId' = 0
    /\ Silent
    /\ returned' = NoReq
    /\ lastCompleted' = NoIds
    /\ clearedConversation' = TRUE
    /\ UNCHANGED <<webView, model, storedApiKey, apiGpt3, apiGpt35, inProgress,
                   abortController, currentMessageId, response,
                   nreq, reqs, offers, offerText, retryOffers, keyPrompt>>

\* cleargpt3
cleargpt3 ==
    /\ webView
    /\ op' = "cleargpt3"
    /\ handed' = NoHanded
    /\ apiGpt3' = FALSE
    /\ Silent
    /\ returned' = NoReq
    /\ UNCHANGED <<webView, model, storedApiKey, apiGpt35, conversationId, messageId,
                   inProgress, abortController, currentMessageId,
                   response, nreq, reqs, offers, offerText, retryOffers, keyPrompt,
                   lastCompleted, clearedConversation>>

\* login: prepareConversation(), then loginSuccessful once more on success
login ==
    /\ webView
    /\ op' = "login"
    /\ handed' = NoHanded
    /\ \E configKey \in BOOLEAN :
       LET prep == prepareConversation(configKey)
       IN  IF prep.ok
           THEN /\ apiGpt3' = prep.apiGpt3
                /\ apiGpt35' = prep.apiGpt35
                /\ Deliver(sendMessage(sendMessage(Start, LoginSuccessful, TRUE, 0),
                                       LoginSuccessful, TRUE, 0))
                /\ UNCHANGED keyPrompt
           ELSE /\ keyPrompt' = TRUE
                /\ Silent
                /\ UNCHANGED <<apiGpt3, apiGpt35>>
    /\ returned' = NoReq
    /\ UNCHANGED <<webView, model, storedApiKey, conversationId, messageId, inProgress,
                   abortController, currentMessageId, response, nreq,
                   reqs, offers, offerText, retryOffers, lastCompleted, clearedConversation>>

\* the user answers the missing-key dialog by storing a key in the session
storeApiKeyInSession ==
    /\ keyPrompt
    /\ op' = "storeApiKeyInSession"
    /\ handed' = NoHanded
    /\ keyPrompt' = FALSE
    /\ storedApiKey' = TRUE
    /\ Deliver(sendMessage(Start, LoginSuccessful, TRUE, 0))
    /\ returned' = NoReq
    /\ UNCHANGED <<webView, model, apiGpt3, apiGpt35, conversationId, messageId,
                   inProgress, abortController, currentMessageId,
                   response, nreq, reqs, offers, offerText, retryOffers, lastCompleted,
                   clearedConversation>>

\* ------------------------------------------------------------ specification
Next ==
    \/ resolveWebviewView
    \/ AddFreeTextQuestion
    \/ \E r \in Requests : AcceptContinuation(r)
    \/ \E r \in Requests, text \in PartialTexts : onProgress(r, text)
    \/ \E r \in Requests, text \in Texts : ClientResolve(r, text)
    \/ \E r \in Requests, err \in Errors : ClientReject(r, err)
    \/ StopGenerating
    \/ clearSession
    \/ setMethod
    \/ setAuthType
    \/ setChromeExecutablePath
    \/ setProfilePath
    \/ setProxyServer
    \/ clearConversation
    \/ cleargpt3
    \/ login
    \/ storeApiKeyInSession

Spec == Init /\ [][Next]_vars

\* the client call of request r settles
Settle(r) ==
    \/ \E text \in Texts : ClientResolve(r, text)
    \/ \E err \in Errors : ClientReject(r, err)

\* Every client call eventually resolves or rejects.  The behaviours are those
\* of a gpt-4 session that starts with no stored key.
FairInit == Init /\ model = ModelGpt4 /\ ~storedApiKey

FairSpec ==
    FairInit /\ [][Next]_vars /\ \A r \in 1..MaxRequests : WF_vars(Settle(r))

\* The behaviours of a gpt-4 session that starts with no stored key, in which
\* MaxContinuations more calls may be made by accepting continuation offers.
ContinuationInit == Init /\ model = ModelGpt4 /\ ~storedApiKey

ContinuationNext == Next \/ \E r \in Requests : FurtherContinuation(r)

ContinuationSpec == ContinuationInit /\ [][ContinuationNext]_vars

\* ------------------------------------------------------------------ claims
InFlight == {r \in Requests : Outstanding(r)}

\* the messages of the latest step that satisfy P
SentWith(P(_)) == {i \in 1..Len(sent) : P(sent[i])}

IsTerminalResponse(e) == e.msg.type = "addResponse" /\ e.msg.done
IsAddResponse(e) == e.msg.type = "addResponse"
IsAddError(e) == e.msg.type = "addError"
IsIdleNotice(e) == e.msg = ShowInProgress(FALSE)

\* C1: at most one client call is outstanding at any time.
C1_AtMostOneInFlight == Cardinality(InFlight) <= 1

\* C2: when a call of sendApiRequest that passed the in-flight guard returns,
\* this.inProgress is false and exactly one terminal message (addResponse with
\* done, or addError) has been published for it.
C2_ExactlyOneTerminal ==
    returned.pc \in {"done", "noClient"} =>
        /\ ~inProgress
        /\ returned.terminals = 1

\* C3: a stop during a request publishes a terminal addResponse carrying the
\* accumulated text, and no addError is ever published for that request.
C3_StopNeverError ==
    /\ \A r \in InFlight : reqs[r].cancelled => reqs[r].terminals >= 1
    /\ op = "stopGenerating" =>
           \E i \in SentWith(IsTerminalResponse) : sent[i].msg.value = response
    /\ returned.cancelled => returned.errors = 0

\* the number of fence markers of a text, counted from the left
RECURSIVE FenceCount(_)
FenceCount(s) ==
    IF Len(s) < Len(Fence) THEN 0
    ELSE IF SubSeq(s, 1, Len(Fence)) = Fence
    THEN 1 + FenceCount(SubSeq(s, Len(Fence) + 1, Len(s)))
    ELSE FenceCount(Tail(s))

ReturnedJoined ==
    IF returned.hasPrev THEN returned.previousAnswer \o returned.text
    ELSE returned.text

\* C4: on completion the closing fence is appended and the continuation is
\* offered if and only if the response, with previousAnswer prepended, holds an
\* odd number of fence markers.
C4_OddFenceContinuation ==
    returned.outcome = "completed" =>
        /\ (returned.r \in offers) <=> (FenceCount(ReturnedJoined) % 2 = 1)
        /\ (returned.final = ReturnedJoined \o ClosingFence)
               <=> (FenceCount(ReturnedJoined) % 2 = 1)
        /\ (returned.final = ReturnedJoined)
               <=> (FenceCount(ReturnedJoined) % 2 = 0)

\* C5: a request with previousAnswer A whose client call completes with B
\* publishes exactly A followed by B as its terminal addResponse.
C5_ContinuationJoin ==
    (returned.outcome = "completed" /\ returned.hasPrev) =>
        \A i \in SentWith(IsTerminalResponse) :
            sent[i].msg.value = returned.previousAnswer \o returned.text

\* C6: clearSession leaves both continuation identifiers unset, and a request
\* that was in flight at a clearSession does not set them again.
C6_ClearedStaysCleared ==
    /\ op = "clearSession" => (conversationId = 0 /\ messageId = 0)
    /\ (returned.pc = "done" /\ returned.cleared) =>
           /\ conversationId # Result(returned.r, <<>>).id
           /\ messageId # Result(returned.r, <<>>).parentMessageId

\* C7: right after clearSession the session holds no client of either version.
C7_ClearSessionDropsClients ==
    op = "clearSession" => (~apiGpt3 /\ ~apiGpt35)

\* C8 as stated: while no webview is set the buffer holds the message
\* published last, of whatever type, and the attachment delivers exactly that
\* message and empties the buffer.
C8_LastWriteWins ==
    /\ ~webView => leftOverMessage = lastDetached.any
    /\ op = "resolveWebviewView" =>
           /\ leftOverMessage = NoMessage
           /\ sent = IF lastDetached.any # NoMessage
                     THEN <<Entry(lastDetached.any, 0, "flushed")>> ELSE <<>>

\* C8 amended: the buffer is last-write-wins of size 1 over the messages
\* published without ignoreMessageIfNullWebView; the attachment delivers
\* exactly the latest of those and empties the buffer, and a loginSuccessful
\* published while no webview is set is dropped, never buffered or delivered
\* later.
C8_LastKeptWins ==
    /\ ~webView => leftOverMessage = lastDetached.kept
    /\ op = "resolveWebviewView" =>
           /\ leftOverMessage = NoMessage
           /\ sent = IF lastDetached.kept # NoMessage
                     THEN <<Entry(lastDetached.kept, 0, "flushed")>> ELSE <<>>
    /\ \A i \in 1..Len(sent) :
           sent[i].msg.type = "loginSuccessful" => sent[i].disp \in {"posted", "dropped"}
    /\ leftOverMessage.type # "loginSuccessful"

\* the attachment delivers an older addResponse although a loginSuccessful
\* was published after it
C8_Witness ==
    /\ op = "resolveWebviewView"
    /\ lastDetached.any = LoginSuccessful
    /\ lastDetached.kept.type = "addResponse"
    /\ sent = <<Entry(lastDetached.kept, 0, "flushed")>>
    /\ leftOverMessage = NoMessage

GptModels == {ModelGpt4}
CodeModels == {ModelCodeDavinci}

\* C9: a request goes through the newer client exactly when the model name
\* starts with "gpt-", through the legacy client otherwise, and every
\* addResponse carries responseInMarkdown = FALSE exactly when the model name
\* starts with "code-".
C9_ModelClassRouting ==
    /\ \A r \in InFlight :
           reqs[r].client = IF model \in GptModels THEN "gpt35" ELSE "gpt3"
    /\ \A i \in SentWith(IsAddResponse) :
           sent[i].msg.responseInMarkdown = (model \notin CodeModels)

\* a progress callback of a code-davinci-002 request on the legacy client
C9_Witness ==
    /\ model = ModelCodeDavinci
    /\ op = "onProgress"
    /\ \E r \in InFlight : reqs[r].client = "gpt3"
    /\ \E i \in SentWith(IsAddResponse) : ~sent[i].msg.responseInMarkdown

\* C10: provided every client call settles, every accepted request returns,
\* leaving this.inProgress false and showInProgress{inProgress: false}
\* published, whatever the outcome.
C10_ReturnsToIdle ==
    \A r \in 1..MaxRequests :
        Outstanding(r) ~>
            (/\ returned.r = r
             /\ returned.pc = "done"
             /\ ~inProgress
             /\ SentWith(IsIdleNotice) # {})

\* a request whose catch block itself threw has returned to idle
C10_Witness ==
    /\ returned.outcome = "threw"
    /\ returned.cancelled
    /\ ~inProgress
    /\ SentWith(IsIdleNotice) # {}

\* C11: the identifiers passed to the client for a request are the pair the
\* most recent completed client call returned, when no clearConversation or
\* clearSession came in between, and a completion overwrites both stored
\* identifiers with the values the client returned.
C11_ContinuationThreading ==
    /\ (handed # NoHanded /\ lastCompleted.set) =>
           /\ handed.messageId = lastCompleted.conversationId
           /\ handed.parentMessageId = lastCompleted.messageId
    /\ returned.outcome = "completed" =>
           /\ conversationId = Result(returned.r, returned.text).id
           /\ messageId = Result(returned.r, returned.text).parentMessageId

\* a request is handed to its client with the identifiers of the completed
\* request before it
C11_Witness ==
    /\ lastCompleted.set
    /\ handed.r = 2
    /\ handed.messageId = Result(1, TextA).id
    /\ handed.parentMessageId = Result(1, TextA).parentMessageId

\* C12: the first request handed to a client after a clearConversation is
\* sent with both continuation identifiers unset, whether or not a request
\* was in flight when clearConversation was handled.
C12_ClearConversationUnsets ==
    handed.afterClear => (handed.messageId = 0 /\ handed.parentMessageId = 0)

\* C13: once a stop has published the terminal addResponse of a request, no
\* progress callback of that request publishes another addResponse or changes
\* this.response.
C13_ProgressAfterStop ==
    op = "onProgress" =>
        \A i \in SentWith(IsAddResponse) :
            ~(Outstanding(sent[i].req) /\ reqs[sent[i].req].cancelled)

\* the fields of the session a call of sendApiRequest may write
SessionState ==
    <<response, conversationId, messageId, apiGpt3, apiGpt35, abortController,
      currentMessageId, inProgress>>

\* C14: a call of sendApiRequest made while this.inProgress is true changes no
\* session state, publishes no message, starts no client call, and no client
\* call is started for it later.
C14_DroppedIsNoOp ==
    [][/\ (inProgress /\ nreq' = nreq + 1) =>
              /\ UNCHANGED <<SessionState, reqs, leftOverMessage, keyPrompt>>
              /\ sent' = <<>>
              /\ handed' = NoHanded
       /\ \A r \in Requests :
              (r <= nreq /\ ~Outstanding(r)) => reqs'[r] = reqs[r]]_vars

\* a call was dropped while a client call was outstanding
C14_Witness ==
    /\ returned.pc = "dropped"
    /\ inProgress
    /\ InFlight # {}
    /\ sent = <<>>

SettingsChanges ==
    {"setMethod", "setAuthType", "setChromeExecutablePath", "setProfilePath",
     "setProxyServer"}

\* C15: each settings change cancels the request in flight and leaves both
\* continuation identifiers unset.
C15_SettingsChangeResets ==
    op \in SettingsChanges =>
        /\ conversationId = 0
        /\ messageId = 0
        /\ ~inProgress
        /\ Outstanding(abortController) => reqs[abortController].aborted

\* C16: no request is handed to a client, marked in flight or announced to the
\* webview when neither the configuration nor the stored state holds a key,
\* also when a client created earlier is still cached.
C16_MissingKeyFails ==
    handed # NoHanded => handed.keyResolvable

\* the HTTP status of an error, from whichever field carries it
ErrorStatus(err) == IF err.status # "" THEN err.status ELSE err.statusCode

Contains(value, part) == \E i \in 1..Len(value) : value[i] = part

\* C17: a failed client call publishes an addError whose value is a defined
\* string; it contains the fixed message of the status when the error carries
\* one of the six statuses in either field, and the provider's message
\* otherwise.
C17_FailureMapping ==
    returned.outcome \in {"failed", "threw"} =>
        \E i \in SentWith(IsAddError) :
            /\ sent[i].msg.value # Undefined
            /\ IF returned.error.defined /\ ErrorStatus(returned.error) \in StatusCodes
               THEN Contains(sent[i].msg.value, FixedMessage(ErrorStatus(returned.error)))
               ELSE Contains(sent[i].msg.value, returned.error.apiMessage)

\* C18: a failure starts no client call by itself, and "clear and retry" is
\* offered only for a failure with status 400.
C18_NoRetryButFor400 ==
    returned.outcome \in {"failed", "threw"} =>
        /\ handed = NoHanded
        /\ returned.r \in retryOffers => ErrorStatus(returned.error) = "400"

\* C19: stopGenerating while no request is active leaves this.inProgress false
\* and the response text, the identifiers, the clients and the current
\* request id as they are, and a stopGenerating right after a stopGenerating
\* changes no session state.
C19_StopIdempotent ==
    [][(op' = "stopGenerating") =>
          /\ (~inProgress /\ InFlight = {}) =>
                 (~inProgress' /\ UNCHANGED <<SessionState, reqs>>)
          /\ (op = "stopGenerating") => UNCHANGED SessionState]_vars

\* a stop with no request active, after an answer was stored
C19_Witness ==
    /\ op = "stopGenerating"
    /\ InFlight = {}
    /\ ~inProgress
    /\ conversationId # 0
    /\ response # <<>>

\* C20: the follow-up of an accepted continuation offer is issued with prompt
\* "Continue" and with previousAnswer equal to the text published as the
\* terminal addResponse of the request the offer was made for.
C20_ContinuationUsesOfferedText ==
    (handed # NoHanded /\ reqs[handed.r].hasPrev) =>
        /\ reqs[handed.r].prompt = PromptContinue
        /\ reqs[handed.r].previousAnswer = handed.offered

\* C21: every addResponse published for a request, partial or terminal,
\* carries the identifier generated when the request was marked in flight.
C21_ResponseCarriesRequestId ==
    \A i \in SentWith(IsAddResponse) :
        sent[i].req \in Requests => sent[i].msg.id = getRandomId(sent[i].req)

\* C22: before any call of sendApiRequest no terminal addResponse is
\* published, buffered, or delivered on attachment, neither by the
\* constructor nor by a stop or a clearSession.
C22_NoTerminalBeforeRequest ==
    nreq = 0 =>
        /\ SentWith(IsTerminalResponse) = {}
        /\ ~(leftOverMessage.type = "addResponse" /\ leftOverMessage.done)

\* the operations that unset the identifiers: clearConversation, clearSession
\* and the settings changes that call it
Clears == {"clearConversation", "clearSession"} \cup SettingsChanges

\* C23: the rejection of a client call leaves the stored identifiers and the
\* client instances as they are, and the identifiers change only by a
\* completion or a clear.
C23_RejectLeavesIdentifiers ==
    [][/\ (op' = "reject") =>
              UNCHANGED <<conversationId, messageId, apiGpt3, apiGpt35>>
       /\ (conversationId' # conversationId \/ messageId' # messageId) =>
              op' \in {"resolve"} \cup Clears]_vars

\* a call rejected while the identifiers of an earlier answer were stored
C23_Witness ==
    /\ op = "reject"
    /\ returned.outcome = "failed"
    /\ returned.r = 2
    /\ conversationId = Result(1, TextA).id
    /\ messageId = Result(1, TextA).parentMessageId

IsTerminal(e) == IsTerminalResponse(e) \/ IsAddError(e)

\* C24: with a webview attached, showInProgress with inProgress false is
\* never published for a request before its terminal message, and a request
\* publishes nothing after a stop has published its terminal message and
\* showInProgress with inProgress false.
C24_PerRequestOrder ==
    webView =>
        /\ \A i, j \in 1..Len(sent) :
               (i < j /\ sent[i].req = sent[j].req /\ IsIdleNotice(sent[i])
                      /\ sent[i].req \in Requests
                      /\ (Outstanding(sent[i].req) \/ returned.r = sent[i].req))
                   => ~IsTerminal(sent[j])
        /\ op \in {"onProgress", "resolve", "reject"} =>
               \A i \in 1..Len(sent) :
                   /\ Outstanding(sent[i].req) => ~reqs[sent[i].req].cancelled
                   /\ returned.r = sent[i].req => ~returned.cancelled

====
